---- MODULE Spec2Model ----
(***************************************************************************)
(* Model of json_to_csv_converter.py: the regular-expression line repair   *)
(* (temp_replace, get_line_contents), the JSON parse of the repaired text, *)
(* the flattener (get_column_names, get_nested_value, get_row) and the     *)
(* two-pass run of __main__ (get_superset_of_column_names_from_file, then  *)
(* read_and_write_file).  Text is a TLA+ string; a character is a string   *)
(* of length one.                                                          *)
(***************************************************************************)
EXTENDS Integers, Sequences, FiniteSets, TLC

(***************************************************************************)
(* Characters and character classes of the regular expressions.            *)
(***************************************************************************)
CharAt(s, i) == SubSeq(s, i, i)

CharsOf(s) == {CharAt(s, i) : i \in 1..Len(s)}

\* \w for the ASCII text of the model
WordChars == CharsOf("abcdefghijklmnopqrstuvwxyzABCDEFGHIJKLMNOPQRSTUVWXYZ0123456789_")

\* \s
SpaceChars == {" ", "\t", "\n", "\r", "\f"}

\* a class is a set of characters, possibly negated
In(set) == [neg |-> FALSE, set |-> set]

NotIn(set) == [neg |-> TRUE, set |-> set]

\* [\w\W]
AnyChar == NotIn({})

ClassHas(c, ch) == (ch \in c.set) /= c.neg

(***************************************************************************)
(* Pattern items: a literal, a quantified class (hi = 0: no upper limit),  *)
(* an alternation of literals, a negative look-behind of one character.    *)
(* A regex is its items and, per capture group, the first and last item    *)
(* the group spans.                                                        *)
(***************************************************************************)
Lit(str) == [k |-> "lit", s |-> str, c |-> AnyChar, lo |-> 1, hi |-> 1, a |-> <<>>]

Cls(c, lo, hi) == [k |-> "cls", s |-> "", c |-> c, lo |-> lo, hi |-> hi, a |-> <<>>]

Plus(c) == Cls(c, 1, 0)

Star(c) == Cls(c, 0, 0)

Alt(alts) == [k |-> "alt", s |-> "", c |-> AnyChar, lo |-> 1, hi |-> 1, a |-> alts]

NotBehind(ch) == [k |-> "nlb", s |-> ch, c |-> AnyChar, lo |-> 0, hi |-> 0, a |-> <<>>]

Regex(items, groups) == [items |-> items, groups |-> groups]

StartsWith(s, i, lit) == i + Len(lit) - 1 <= Len(s) /\ SubSeq(s, i, i + Len(lit) - 1) = lit

Max(set) == CHOOSE n \in set : \A m \in set : m <= n

Min(set) == CHOOSE n \in set : \A m \in set : n <= m

\* number of consecutive characters of class c from position i, at most hi (0: no limit)
Run(s, i, c, hi) ==
    LET stop == {j \in i..Len(s) : ~ClassHas(c, CharAt(s, j))}
        n == IF stop = {} THEN Len(s) + 1 - i ELSE Min(stop) - i
    IN  IF hi > 0 /\ n > hi THEN hi ELSE n

\* the positions at which a match of one item that starts at i can end
ItemEnds(it, s, i) ==
    CASE it.k = "lit" -> IF StartsWith(s, i, it.s) THEN {i + Len(it.s)} ELSE {}
      [] it.k = "cls" -> {i + m : m \in it.lo..Run(s, i, it.c, it.hi)}
      [] it.k = "alt" -> {i + Len(it.a[j]) : j \in {q \in 1..Len(it.a) : StartsWith(s, i, it.a[q])}}
      [] OTHER -> IF i > 1 /\ CharAt(s, i - 1) = it.s THEN {} ELSE {i}

RECURSIVE MatchStarts(_, _, _, _)
\* for every item of the pattern, the positions of s from which the items from
\* that one to the last match; after[1] is that set for item k + 1, and when
\* it is empty the pattern matches nowhere
MatchStarts(items, s, k, after) ==
    IF k = 0 \/ after[1] = {} THEN after
    ELSE MatchStarts(items, s, k - 1,
            <<{i \in 1..(Len(s) + 1) : ItemEnds(items[k], s, i) \cap after[1] /= {}}>> \o after)

\* the end that the backtracking search gives item it at i: the longest run of a
\* greedy quantifier, the first alternative of an alternation, among the ends
\* from which the rest of the pattern matches
PickEnd(it, s, i, rest) ==
    IF it.k = "alt"
    THEN i + Len(it.a[Min({q \in 1..Len(it.a) :
                              StartsWith(s, i, it.a[q]) /\ i + Len(it.a[q]) \in rest})])
    ELSE Max(ItemEnds(it, s, i) \cap rest)

RECURSIVE MatchAt(_, _, _, _)
\* the match that starts at r[1], one of starts[1]: r[k + 1] is the position
\* after item k; r holds the start and the ends of the items matched so far
MatchAt(items, s, starts, r) ==
    IF Len(r) > Len(items) THEN r
    ELSE MatchAt(items, s, starts,
                 Append(r, PickEnd(items[Len(r)], s, r[Len(r)], starts[Len(r) + 1])))

\* m.group(g) of the match r of re
Group(re, s, r, g) == SubSeq(s, r[re.groups[g][1]], r[re.groups[g][2] + 1] - 1)

RECURSIVE Expand(_, _, _, _, _, _)
\* the parts from..to of the replacement, a part being a literal text or a
\* group number: the first half of the parts, then the second half
Expand(re, repl, s, r, from, to) ==
    IF from = to
    THEN IF repl[from].g = 0 THEN repl[from].s ELSE Group(re, s, r, repl[from].g)
    ELSE Expand(re, repl, s, r, from, (from + to) \div 2)
         \o Expand(re, repl, s, r, ((from + to) \div 2) + 1, to)

T(str) == [g |-> 0, s |-> str]

G(n) == [g |-> n, s |-> ""]

RECURSIVE SubFrom(_, _, _, _, _)
\* from position i: the text up to the leftmost match, its replacement, and on
\* from the end of the match
SubFrom(re, repl, s, starts, i) ==
    IF {j \in starts[1] : i <= j /\ j <= Len(s)} = {} THEN SubSeq(s, i, Len(s))
    ELSE LET r == MatchAt(re.items, s, starts,
                          <<Min({j \in starts[1] : i <= j /\ j <= Len(s)})>>)
         IN  SubSeq(s, i, r[1] - 1) \o Expand(re, repl, s, r, 1, Len(repl))
             \o SubFrom(re, repl, s, starts, r[Len(r)])

IsSubstring(sub, s) == \E i \in 1..(Len(s) + 1) : StartsWith(s, i, sub)

\* a pattern whose literal does not occur in s has no match in s
LiteralsOccur(items, s) ==
    \A k \in 1..Len(items) : items[k].k = "lit" => IsSubstring(items[k].s, s)

\* re.sub(pattern, repl, s): every leftmost non-overlapping match replaced
Sub(re, repl, s) ==
    IF ~LiteralsOccur(re.items, s) THEN s
    ELSE LET starts == MatchStarts(re.items, s, Len(re.items), <<1..(Len(s) + 1)>>)
         IN  IF starts[1] = {} THEN s ELSE SubFrom(re, repl, s, starts, 1)

(***************************************************************************)
(* temp_replace: protect, substitute, unprotect.                           *)
(***************************************************************************)
RECURSIVE SubAll(_, _, _, _)
\* wip_line = re.sub(pattern, repl, wip_line) for the substitutions from..to of
\* the list, in order: those of the first half, then those of the second half
SubAll(list, wip_line, from, to) ==
    IF from > to \/ Len(wip_line) = 0 THEN wip_line
    ELSE IF from = to THEN Sub(list[from][1], list[from][2], wip_line)
    ELSE SubAll(list, SubAll(list, wip_line, from, (from + to) \div 2),
                ((from + to) \div 2) + 1, to)

\* the substitutions temp_replace applies to raw_line, in order
temp_replace(temp_repl, gen_pattern, gen_repl, undo_repl) ==
    temp_repl \o <<<<gen_pattern, gen_repl>>>> \o undo_repl

(***************************************************************************)
(* The patterns of get_line_contents, in source order.                     *)
(***************************************************************************)
TextKey == Lit("\"text\":\"")

\* [,}]
CommaOrClose == Cls(In({",", "}"}), 1, 1)

\* (\"text\":\"[\w\W]+)\\n(\w+): True
TrueTemp ==
    << Regex(<<TextKey, Plus(AnyChar), Lit("\\n"), Plus(In(WordChars)), Lit(": True")>>,
             <<<<1, 2>>, <<4, 4>>>>),
       <<G(1), T("\\n"), G(2), T(": #True#")>> >>

\* : True([,}])
TrueGen == Regex(<<Lit(": True"), CommaOrClose>>, <<<<2, 2>>>>)

TrueGenRepl == <<T(": \"True\""), G(1)>>

\* (\"text\":\"[\w\W]+)\\n(\w+): #True#
TrueUndo ==
    << Regex(<<TextKey, Plus(AnyChar), Lit("\\n"), Plus(In(WordChars)), Lit(": #True#")>>,
             <<<<1, 2>>, <<4, 4>>>>),
       <<G(1), T("\\n"), G(2), T(": True")>> >>

\* : False([,}])
FalseGen == Regex(<<Lit(": False"), CommaOrClose>>, <<<<2, 2>>>>)

FalseGenRepl == <<T(": \"False\""), G(1)>>

\* (\"text\":\"[\w\W]+)'(\w+)':
KeyTemp ==
    << Regex(<<TextKey, Plus(AnyChar), Lit("'"), Plus(In(WordChars)), Lit("':")>>,
             <<<<1, 2>>, <<4, 4>>>>),
       <<G(1), T("#'#"), G(2), T("#'#:")>> >>

\* '(\w+)':
KeyGen == Regex(<<Lit("'"), Plus(In(WordChars)), Lit("':")>>, <<<<2, 2>>>>)

KeyGenRepl == <<T("\""), G(1), T("\":")>>

\* (\"text\":\"[\w\W]+)#'#(\w+)#'#:
KeyUndo ==
    << Regex(<<TextKey, Plus(AnyChar), Lit("#'#"), Plus(In(WordChars)), Lit("#'#:")>>,
             <<<<1, 2>>, <<4, 4>>>>),
       <<G(1), T("'"), G(2), T("':")>> >>

\* (\"text\":\"[\w\W]+)'(\w+)-(\w+)':
HyphenKeyTemp ==
    << Regex(<<TextKey, Plus(AnyChar), Lit("'"), Plus(In(WordChars)), Lit("-"),
               Plus(In(WordChars)), Lit("':")>>,
             <<<<1, 2>>, <<4, 4>>, <<6, 6>>>>),
       <<G(1), T("#'#"), G(2), T("-"), G(3), T("#'#:")>> >>

\* '(\w+)-(\w+)':
HyphenKeyGen ==
    Regex(<<Lit("'"), Plus(In(WordChars)), Lit("-"), Plus(In(WordChars)), Lit("':")>>,
          <<<<2, 2>>, <<4, 4>>>>)

HyphenKeyGenRepl == <<T("\""), G(1), T("-"), G(2), T("\":")>>

\* (\"text\":\"[\w\W]+)#'#(\w+)-(\w+)#'#:
HyphenKeyUndo ==
    << Regex(<<TextKey, Plus(AnyChar), Lit("#'#"), Plus(In(WordChars)), Lit("-"),
               Plus(In(WordChars)), Lit("#'#:")>>,
             <<<<1, 2>>, <<4, 4>>, <<6, 6>>>>),
       <<G(1), T("'"), G(2), T("-"), G(3), T("':")>> >>

\* [\w ,.\\]
WordSpaceCommaDotBackslash == In(WordChars \cup {" ", ",", ".", "\\"})

\* [.: ]
DotColonSpace == In({".", ":", " "})

\* (\"caption\":\s*\")
CaptionKey == <<Lit("\"caption\":"), Star(In(SpaceChars)), Lit("\"")>>

OpenBraceTemp ==
    << \* (\"text\":\")\{{2}([\w ,.\\]+)
       << Regex(<<TextKey, Cls(In({"{"}), 2, 2), Plus(WordSpaceCommaDotBackslash)>>,
                <<<<1, 1>>, <<3, 3>>>>),
          <<G(1), T("#{{#"), G(2)>> >>,
       \* (\"text\":\")\{([\w\W]+)\}([\w\W]+)\"
       << Regex(<<TextKey, Lit("{"), Plus(AnyChar), Lit("}"), Plus(AnyChar), Lit("\"")>>,
                <<<<1, 1>>, <<3, 3>>, <<5, 5>>>>),
          <<G(1), T("#{#"), G(2), T("#}#"), G(3), T("\"")>> >>,
       \* (\"text\":\")\{([\w\W]+)\"
       << Regex(<<TextKey, Lit("{"), Plus(AnyChar), Lit("\"")>>,
                <<<<1, 1>>, <<3, 3>>>>),
          <<G(1), T("#{#"), G(2), T("\"")>> >>,
       \* (\"caption\":\s*\")\{([.: ]+[\w\W]+[.: ]+)\}
       << Regex(CaptionKey \o <<Lit("{"), Plus(DotColonSpace), Plus(AnyChar),
                                Plus(DotColonSpace), Lit("}")>>,
                <<<<1, 3>>, <<5, 7>>>>),
          <<G(1), T("#{#"), G(2), T("#}#")>> >> >>

\* \"{
OpenBraceGen == Regex(<<Lit("\"{")>>, <<>>)

OpenBraceGenRepl == <<T("{")>>

OpenBraceUndo ==
    << \* (\"text\":\")#\{{2}#([\w ,.\\]+)
       << Regex(<<TextKey, Lit("#"), Cls(In({"{"}), 2, 2), Lit("#"),
                  Plus(WordSpaceCommaDotBackslash)>>,
                <<<<1, 1>>, <<5, 5>>>>),
          <<G(1), T("{{"), G(2)>> >>,
       \* (\"text\":\")#\{#([\w\W]+)#\}#([\w\W]+)\"
       << Regex(<<TextKey, Lit("#{#"), Plus(AnyChar), Lit("#}#"), Plus(AnyChar), Lit("\"")>>,
                <<<<1, 1>>, <<3, 3>>, <<5, 5>>>>),
          <<G(1), T("{"), G(2), T("}"), G(3), T("\"")>> >>,
       \* (\"text\":\")#\{#([\w\W]+)\"
       << Regex(<<TextKey, Lit("#{#"), Plus(AnyChar), Lit("\"")>>,
                <<<<1, 1>>, <<3, 3>>>>),
          <<G(1), T("{"), G(2), T("\"")>> >>,
       \* (\"caption\":\s*\")#\{#([.: ]+[\w\W]+[.: ]+)#\}#
       << Regex(CaptionKey \o <<Lit("#{#"), Plus(DotColonSpace), Plus(AnyChar),
                                Plus(DotColonSpace), Lit("#}#")>>,
                <<<<1, 3>>, <<5, 7>>>>),
          <<G(1), T("{"), G(2), T("}")>> >> >>

\* (text|name|caption)
FreeTextKeys == Alt(<<"text", "name", "caption">>)

\* [: +-;^]  (the range from '+' to ';')
TailPunct == In({":", " ", "^"} \cup CharsOf("+,-./0123456789:;"))

CloseBraceTemp ==
    << \* \"(text|name|caption)(\":\s*\"[\w\W]+)\{([\w\W]+)\}\"
       << Regex(<<Lit("\""), FreeTextKeys, Lit("\":"), Star(In(SpaceChars)), Lit("\""),
                  Plus(AnyChar), Lit("{"), Plus(AnyChar), Lit("}\"")>>,
                <<<<2, 2>>, <<3, 6>>, <<8, 8>>>>),
          <<T("\""), G(1), G(2), T("#{#"), G(3), T("#}#"), T("\"")>> >>,
       \* (\"text\":\")([^{][\w\W]+)([: +-;^]+)\}\"
       << Regex(<<TextKey, Cls(NotIn({"{"}), 1, 1), Plus(AnyChar), Plus(TailPunct), Lit("}\"")>>,
                <<<<1, 1>>, <<2, 3>>, <<4, 4>>>>),
          <<G(1), G(2), G(3), T("#}#\"")>> >> >>

\* }\"([,}])
CloseBraceGen == Regex(<<Lit("}\""), CommaOrClose>>, <<<<2, 2>>>>)

CloseBraceGenRepl == <<T("}"), G(1)>>

CloseBraceUndo ==
    << \* \"(text|name|caption)(\":\s*\"[\w\W]+)#\{#([\w\W]+)#\}#\"
       << Regex(<<Lit("\""), FreeTextKeys, Lit("\":"), Star(In(SpaceChars)), Lit("\""),
                  Plus(AnyChar), Lit("#{#"), Plus(AnyChar), Lit("#}#\"")>>,
                <<<<2, 2>>, <<3, 6>>, <<8, 8>>>>),
          <<T("\""), G(1), G(2), T("{"), G(3), T("}\"")>> >>,
       \* (\"text\":\")([^{][\w\W]+)([: +-;^]+)#\}#\"
       << Regex(<<TextKey, Cls(NotIn({"{"}), 1, 1), Plus(AnyChar), Plus(TailPunct), Lit("#}#\"")>>,
                <<<<1, 1>>, <<2, 3>>, <<4, 4>>>>),
          <<G(1), G(2), G(3), T("}\"")>> >> >>

\* \"u'(\w+)'\"
UnicodeMarker == Regex(<<Lit("\"u'"), Plus(In(WordChars)), Lit("'\"")>>, <<<<2, 2>>>>)

UnicodeMarkerRepl == <<T("\""), G(1), T("\"")>>

\* '(\w+)'
SingleQuoted == Regex(<<Lit("'"), Plus(In(WordChars)), Lit("'")>>, <<<<2, 2>>>>)

SingleQuotedRepl == <<G(1)>>

NoneTemp ==
    << \* (\"text\":\"[\w\W]+)([.?,]+)([\w ]*)None,
       << Regex(<<TextKey, Plus(AnyChar), Plus(In({".", "?", ","})),
                  Star(In(WordChars \cup {" "})), Lit("None,")>>,
                <<<<1, 2>>, <<3, 3>>, <<4, 4>>>>),
          <<G(1), G(2), G(3), T("None#,#")>> >>,
       \* (\"text\":\"[\w\W]+)\\n([\w: ]*)None,
       << Regex(<<TextKey, Plus(AnyChar), Lit("\\n"),
                  Star(In(WordChars \cup {":", " "})), Lit("None,")>>,
                <<<<1, 2>>, <<4, 4>>>>),
          <<G(1), T("\\n"), G(2), T("None#,#")>> >>,
       \* (\"text\":\"[\w\W]+)! None,
       << Regex(<<TextKey, Plus(AnyChar), Lit("! None,")>>, <<<<1, 2>>>>),
          <<G(1), T("! None#,#")>> >> >>

\* (?<!\")None([,}])
NoneGen == Regex(<<NotBehind("\""), Lit("None"), CommaOrClose>>, <<<<3, 3>>>>)

NoneGenRepl == <<T("\"None\""), G(1)>>

NoneUndo ==
    << \* (\"text\":\"[\w\W]+)([.?,]+)([\w ]*)None#,#
       << Regex(<<TextKey, Plus(AnyChar), Plus(In({".", "?", ","})),
                  Star(In(WordChars \cup {" "})), Lit("None#,#")>>,
                <<<<1, 2>>, <<3, 3>>, <<4, 4>>>>),
          <<G(1), G(2), G(3), T("None,")>> >>,
       \* (\"text\":\"[\w\W]+)\\n([\w: ]*)None#,#
       << Regex(<<TextKey, Plus(AnyChar), Lit("\\n"),
                  Star(In(WordChars \cup {":", " "})), Lit("None#,#")>>,
                <<<<1, 2>>, <<4, 4>>>>),
          <<G(1), T("\\n"), G(2), T("None,")>> >>,
       \* (\"text\":\"[\w\W]+)! None#,#
       << Regex(<<TextKey, Plus(AnyChar), Lit("! None#,#")>>, <<<<1, 2>>>>),
          <<G(1), T("! None,")>> >> >>

(***************************************************************************)
(* The repaired text of get_line_contents, before json.loads.              *)
(***************************************************************************)
Substitutions ==
    temp_replace(<<TrueTemp>>, TrueGen, TrueGenRepl, <<TrueUndo>>)
    \o <<<<FalseGen, FalseGenRepl>>>>
    \o temp_replace(<<KeyTemp>>, KeyGen, KeyGenRepl, <<KeyUndo>>)
    \o temp_replace(<<HyphenKeyTemp>>, HyphenKeyGen, HyphenKeyGenRepl, <<HyphenKeyUndo>>)
    \o temp_replace(OpenBraceTemp, OpenBraceGen, OpenBraceGenRepl, OpenBraceUndo)
    \o temp_replace(CloseBraceTemp, CloseBraceGen, CloseBraceGenRepl, CloseBraceUndo)
    \o <<<<UnicodeMarker, UnicodeMarkerRepl>>, <<SingleQuoted, SingleQuotedRepl>>>>
    \o temp_replace(NoneTemp, NoneGen, NoneGenRepl, NoneUndo)

repaired_text(raw_line) == SubAll(Substitutions, raw_line, 1, Len(Substitutions))

(***************************************************************************)
(* Python values: str, int, bool, None and dict.  A dict is the sequence   *)
(* of its <<key, value>> items in insertion order.                         *)
(***************************************************************************)
PyStr(str) == [t |-> "str", s |-> str, n |-> 0, b |-> FALSE, m |-> <<>>]

PyInt(n) == [t |-> "int", s |-> "", n |-> n, b |-> FALSE, m |-> <<>>]

PyBool(b) == [t |-> "bool", s |-> "", n |-> 0, b |-> b, m |-> <<>>]

None == [t |-> "None", s |-> "", n |-> 0, b |-> FALSE, m |-> <<>>]

PyDict(items) == [t |-> "dict", s |-> "", n |-> 0, b |-> FALSE, m |-> items]

\* key in d, for a dict d
HasKey(items, key) == \E j \in 1..Len(items) : items[j][1] = key

\* d[key], for a dict d that has the key
Lookup(items, key) == items[CHOOSE j \in 1..Len(items) : items[j][1] = key][2]

\* d[key] = value: an existing key keeps its place, a new key goes last
SetItem(items, key, value) ==
    IF HasKey(items, key)
    THEN [j \in 1..Len(items) |-> IF items[j][1] = key THEN <<key, value>> ELSE items[j]]
    ELSE Append(items, <<key, value>>)

RECURSIVE DictOf(_, _, _)
\* dict(pairs)
DictOf(pairs, n, acc) ==
    IF n > Len(pairs) THEN acc
    ELSE DictOf(pairs, n + 1, SetItem(acc, pairs[n][1], pairs[n][2]))

(***************************************************************************)
(* json.loads on objects, strings, integers, true, false and null.         *)
(***************************************************************************)
Peek(s, i) == IF i >= 1 /\ i <= Len(s) THEN CharAt(s, i) ELSE ""

JsonWs == In({" ", "\t", "\n", "\r"})

Digits == "0123456789"

SkipWs(s, i) == IF i > Len(s) THEN i ELSE i + Run(s, i, JsonWs, Len(s))

Parsed(v, i) == [ok |-> TRUE, v |-> v, i |-> i]

\* JSONDecodeError
DecodeError == [ok |-> FALSE, v |-> None, i |-> 0]

DigitValue(ch) == (CHOOSE d \in 1..10 : CharAt(Digits, d) = ch) - 1

RECURSIVE IntOf(_, _)
\* int(text) of a run of digits
IntOf(text, n) ==
    IF n = 0 THEN 0 ELSE 10 * IntOf(text, n - 1) + DigitValue(CharAt(text, n))

\* the number of backslashes that end just before position j
BackslashesBefore(s, j) ==
    Max({n \in 0..(j - 1) : \A q \in (j - n)..(j - 1) : CharAt(s, q) = "\\"})

Escapes == <<
    <<"\"", "\"">>, <<"\\", "\\">>, <<"/", "/">>, <<"n", "\n">>,
    <<"t", "\t">>, <<"r", "\r">>, <<"f", "\f">> >>

RECURSIVE Unescape(_, _)
\* the text of a string literal with its backslash escapes decoded
Unescape(body, i) ==
    LET at == {j \in i..Len(body) : CharAt(body, j) = "\\"}
    IN  IF at = {} THEN [ok |-> TRUE, s |-> SubSeq(body, i, Len(body))]
        ELSE LET j == Min(at)
                 e == Peek(body, j + 1)
             IN  IF ~HasKey(Escapes, e) THEN [ok |-> FALSE, s |-> ""]
                 ELSE LET rest == Unescape(body, j + 2)
                      IN  [ok |-> rest.ok,
                           s |-> SubSeq(body, i, j - 1) \o Lookup(Escapes, e) \o rest.s]

\* a string literal at i: up to the first quote that no backslash escapes;
\* a raw control character inside it is an error
ParseString(s, i) ==
    LET close == {j \in (i + 1)..Len(s) :
                      CharAt(s, j) = "\"" /\ BackslashesBefore(s, j) % 2 = 0}
    IN  IF close = {} THEN DecodeError
        ELSE LET j == Min(close)
                 body == SubSeq(s, i + 1, j - 1)
                 text == Unescape(body, 1)
             IN  IF (\E q \in 1..Len(body) : CharAt(body, q) \in {"\n", "\t", "\r", "\f"})
                    \/ ~text.ok
                 THEN DecodeError
                 ELSE Parsed(PyStr(text.s), j + 1)

\* an integer at i: -?(0|[1-9][0-9]*)
ParseInt(s, i) ==
    LET neg == Peek(s, i) = "-"
        from == IF neg THEN i + 1 ELSE i
        run == Run(s, from, In(CharsOf(Digits)), Len(s))
        n == IF Peek(s, from) = "0" THEN 1 ELSE run
    IN  IF from > Len(s) \/ run = 0 THEN DecodeError
        ELSE Parsed(PyInt((IF neg THEN -1 ELSE 1) * IntOf(SubSeq(s, from, from + n - 1), n)),
                    from + n)

RECURSIVE ParseValue(_, _)
RECURSIVE ParseMembers(_, _, _)
\* the members of an object from the key at i, added to the items acc
ParseMembers(s, i, acc) ==
    IF Peek(s, i) /= "\"" THEN DecodeError
    ELSE LET k == ParseString(s, i)
         IN  IF ~k.ok \/ Peek(s, SkipWs(s, k.i)) /= ":" THEN DecodeError
             ELSE LET v == ParseValue(s, SkipWs(s, SkipWs(s, k.i) + 1))
                  IN  IF ~v.ok THEN DecodeError
                      ELSE LET e == SkipWs(s, v.i)
                               items == SetItem(acc, k.v.s, v.v)
                           IN  CASE Peek(s, e) = "}" -> Parsed(PyDict(items), e + 1)
                                 [] Peek(s, e) = "," -> ParseMembers(s, SkipWs(s, e + 1), items)
                                 [] OTHER -> DecodeError

ParseValue(s, i) ==
    CASE Peek(s, i) = "\"" -> ParseString(s, i)
      [] Peek(s, i) = "{" ->
            IF Peek(s, SkipWs(s, i + 1)) = "}" THEN Parsed(PyDict(<<>>), SkipWs(s, i + 1) + 1)
            ELSE ParseMembers(s, SkipWs(s, i + 1), <<>>)
      [] StartsWith(s, i, "true") -> Parsed(PyBool(TRUE), i + 4)
      [] StartsWith(s, i, "false") -> Parsed(PyBool(FALSE), i + 5)
      [] StartsWith(s, i, "null") -> Parsed(None, i + 4)
      [] OTHER -> ParseInt(s, i)

\* json.loads(s): one value and nothing after it
json_loads(s) ==
    IF Len(s) = 0 THEN DecodeError
    ELSE LET r == ParseValue(s, SkipWs(s, 1))
         IN  IF r.ok /\ SkipWs(s, r.i) = Len(s) + 1 THEN r ELSE DecodeError

\* get_line_contents(raw_line): ok and the record, or not ok (JSONDecodeError)
get_line_contents(raw_line) == json_loads(repaired_text(raw_line))

(***************************************************************************)
(* The flattener: get_column_names, get_nested_value, get_row.             *)
(***************************************************************************)
RECURSIVE get_column_names(_, _)
RECURSIVE ColumnPairs(_, _, _)
\* the list column_names that the loop over line_contents.items() builds, from item n on
ColumnPairs(items, parent_key, n) ==
    IF n > Len(items) THEN <<>>
    ELSE LET k == items[n][1]
             v == items[n][2]
             column_name == IF parent_key /= "" THEN parent_key \o "." \o k ELSE k
         IN  (IF v.t = "dict" THEN get_column_names(v, column_name).m
              ELSE <<<<column_name, v>>>>)
             \o ColumnPairs(items, parent_key, n + 1)

get_column_names(line_contents, parent_key) ==
    PyDict(DictOf(ColumnPairs(line_contents.m, parent_key, 1), 1, <<>>))

\* set(d.keys())
KeySet(d) == {d.m[j][1] : j \in 1..Len(d.m)}

\* the outcome of a call: the exception raised ("" for none) and the value returned
Returns(v) == [exc |-> "", v |-> v]

Raises(e) == [exc |-> e, v |-> None]

\* "key in d": membership for a dict, substring test for a str,
\* TypeError for an int or a bool (not iterable)
KeyIn(d, key) ==
    CASE d.t = "dict" -> Returns(PyBool(HasKey(d.m, key)))
      [] d.t = "str" -> Returns(PyBool(IsSubstring(key, d.s)))
      [] OTHER -> Raises("TypeError")

\* "d[key]" with a str key: the item of a dict, TypeError for a str
GetItem(d, key) ==
    IF d.t = "dict" THEN Returns(Lookup(d.m, key)) ELSE Raises("TypeError")

\* key.split('.', 1)
FirstDot(key) == Min({i \in 1..Len(key) : CharAt(key, i) = "."})

RECURSIVE get_nested_value(_, _)
get_nested_value(d, key) ==
    IF d = None THEN Returns(None)
    ELSE IF "." \notin CharsOf(key)
    THEN LET has == KeyIn(d, key)
         IN  IF has.exc /= "" THEN has
             ELSE IF ~has.v.b THEN Returns(None)
             ELSE GetItem(d, key)
    ELSE LET base_key == SubSeq(key, 1, FirstDot(key) - 1)
             sub_key == SubSeq(key, FirstDot(key) + 1, Len(key))
             has == KeyIn(d, base_key)
         IN  IF has.exc /= "" THEN has
             ELSE IF ~has.v.b THEN Returns(None)
             ELSE LET sub_dict == GetItem(d, base_key)
                  IN  IF sub_dict.exc /= "" THEN sub_dict
                      ELSE get_nested_value(sub_dict.v, sub_key)

RECURSIVE IntStr(_)
\* str(n)
IntStr(n) ==
    IF n < 0 THEN "-" \o IntStr(0 - n)
    ELSE IF n < 10 THEN CharAt(Digits, n + 1)
    ELSE IntStr(n \div 10) \o CharAt(Digits, (n % 10) + 1)

ReprEscapes(quote) == <<
    <<"\\", "\\\\">>, <<"\n", "\\n">>, <<"\t", "\\t">>, <<"\r", "\\r">>,
    <<quote, "\\" \o quote>> >>

RECURSIVE ReprBody(_, _, _)
ReprBody(str, quote, i) ==
    IF i > Len(str) THEN ""
    ELSE (IF HasKey(ReprEscapes(quote), CharAt(str, i))
          THEN Lookup(ReprEscapes(quote), CharAt(str, i))
          ELSE CharAt(str, i))
         \o ReprBody(str, quote, i + 1)

\* repr of a str: single quotes, or double quotes when it has a ' and no "
StrRepr(str) ==
    LET quote == IF "'" \in CharsOf(str) /\ "\"" \notin CharsOf(str) THEN "\"" ELSE "'"
    IN  quote \o ReprBody(str, quote, 1) \o quote

RECURSIVE Repr(_)
RECURSIVE ReprItems(_, _)
ReprItems(items, n) ==
    IF n > Len(items) THEN ""
    ELSE (IF n > 1 THEN ", " ELSE "")
         \o StrRepr(items[n][1]) \o ": " \o Repr(items[n][2])
         \o ReprItems(items, n + 1)

Repr(v) ==
    CASE v.t = "str" -> StrRepr(v.s)
      [] v.t = "int" -> IntStr(v.n)
      [] v.t = "bool" -> IF v.b THEN "True" ELSE "False"
      [] v.t = "None" -> "None"
      [] OTHER -> "{" \o ReprItems(v.m, 1) \o "}"

\* '{0}'.format(v)
Format(v) == IF v.t = "str" THEN v.s ELSE Repr(v)

RECURSIVE RowFrom(_, _, _)
\* the loop of get_row from column n on: the exception raised, or the cells
RowFrom(line_contents, column_names, n) ==
    IF n > Len(column_names) THEN [exc |-> "", row |-> <<>>]
    ELSE LET line_value == get_nested_value(line_contents, column_names[n])
         IN  IF line_value.exc /= "" THEN [exc |-> line_value.exc, row |-> <<>>]
             ELSE LET rest == RowFrom(line_contents, column_names, n + 1)
                      cell == IF line_value.v.t = "str" THEN Format(line_value.v)
                              ELSE IF line_value.v /= None THEN Format(line_value.v)
                              ELSE ""
                  IN  [exc |-> rest.exc,
                       row |-> IF rest.exc /= "" THEN <<>> ELSE <<cell>> \o rest.row]

get_row(line_contents, column_names) == RowFrom(line_contents, column_names, 1)

(***************************************************************************)
(* The run of __main__: the header pass over the input file, then the      *)
(* write pass.  One step of a pass is one iteration of its "for line in    *)
(* fin" loop.                                                              *)
(***************************************************************************)
MaxLines == 2

MaxSkip == 2

\* the raw lines an input file is made of
SampleLines == <<
    "{'id': 1, 'open': True, 'tags': {'a-b': 'c'}}",
    "{\"text\": \"Great {place}!\", \"stars\": 5}",
    "{\"name\": \"Flower {Studio}\"}",
    "{\"name\": \"Flower {Studio}\", \"attrs\": \"{'a': 1}\"}",
    "{\"attrs\": \"{'a': 1, 'b': 'x'}\"}",
    "{\"attrs\": \"{'a': 1, 'b': None}\"}",
    "{\"a\": 1}",
    "{\"a\": {\"b\": 2}}",
    "{\"a.b\": 1}",
    "{\"\": {\"b\": 0}}",
    "{\"a\": null, \"b\": false}",
    "{\"a\": " >>

Lines == {SampleLines[n] : n \in 1..Len(SampleLines)}

RECURSIVE ContentsTable(_, _)
\* get_line_contents of the sample lines from..to
ContentsTable(from, to) ==
    IF from = to THEN <<get_line_contents(SampleLines[from])>>
    ELSE ContentsTable(from, (from + to) \div 2) \o ContentsTable(((from + to) \div 2) + 1, to)

\* get_line_contents of every sample line, computed once
LineContentsTable == ContentsTable(1, Len(SampleLines))

LineContents(line) == LineContentsTable[CHOOSE n \in 1..Len(SampleLines) : SampleLines[n] = line]

VARIABLES file, args_s, pc, skip, count, column_names, header, csv, exc

vars == <<file, args_s, pc, skip, count, column_names, header, csv, exc>>

\* the skip argument taken from the -s option
ScanSkipArgFromOption == args_s

\* the skip argument of the call at line 288
ScanSkipArg == 0

\* the skip of the call at line 294: the default of the parameter
WriteSkipArg == 0

\* column_names = new
UpdateByAssignment(old, new) == new

\* column_names.update(new)
Update(old, new) == old \cup new

RECURSIVE Orders(_)
\* the orders in which a set can be iterated
Orders(set) ==
    IF set = {} THEN {<<>>}
    ELSE UNION {{<<c>> \o rest : rest \in Orders(set \ {c})} : c \in set}

Init ==
    /\ file \in UNION {[1..n -> Lines] : n \in 0..MaxLines}
    /\ args_s \in 0..MaxSkip
    /\ pc = "scan"
    /\ skip = ScanSkipArg
    /\ count = 1
    /\ column_names = {}
    /\ header = <<>>
    /\ csv = [opened |-> FALSE, rows |-> <<>>]
    /\ exc = ""

\* get_superset_of_column_names_from_file: one iteration of the loop
ScanLine ==
    /\ pc = "scan"
    /\ count <= Len(file)
    /\ IF skip <= 0
       THEN LET line_contents == LineContents(file[count])
            IN  IF ~line_contents.ok
                THEN /\ pc' = "failed"
                     /\ exc' = "JSONDecodeError"
                     /\ UNCHANGED <<skip, count, column_names>>
                ELSE /\ column_names' =
                            Update(column_names, KeySet(get_column_names(line_contents.v, "")))
                     /\ count' = count + 1
                     /\ UNCHANGED <<pc, skip, exc>>
       ELSE /\ skip' = skip - 1
            /\ count' = count + 1
            /\ UNCHANGED <<pc, column_names, exc>>
    /\ UNCHANGED <<file, args_s, header, csv>>

\* the header pass returns; read_and_write_file opens the csv file and writes
\* the header row, the columns in the iteration order of the set
OpenCsv ==
    /\ pc = "scan"
    /\ count > Len(file)
    /\ \E order \in Orders(column_names) :
          /\ header' = order
          /\ csv' = [opened |-> TRUE, rows |-> <<order>>]
    /\ pc' = "write"
    /\ skip' = WriteSkipArg
    /\ count' = 1
    /\ UNCHANGED <<file, args_s, column_names, exc>>

\* read_and_write_file: one iteration of the loop
WriteLine ==
    /\ pc = "write"
    /\ count <= Len(file)
    /\ IF skip <= 0
       THEN LET line_contents == LineContents(file[count])
                row == get_row(line_contents.v, header)
            IN  IF ~line_contents.ok
                THEN /\ pc' = "failed"
                     /\ exc' = "JSONDecodeError"
                     /\ UNCHANGED <<skip, count, csv>>
                ELSE IF row.exc /= ""
                THEN /\ pc' = "failed"
                     /\ exc' = row.exc
                     /\ UNCHANGED <<skip, count, csv>>
                ELSE /\ csv' = [csv EXCEPT !.rows = Append(@, row.row)]
                     /\ count' = count + 1
                     /\ UNCHANGED <<pc, skip, exc>>
       ELSE /\ skip' = skip - 1
            /\ count' = count + 1
            /\ UNCHANGED <<pc, csv, exc>>
    /\ UNCHANGED <<file, args_s, column_names, header>>

\* the write pass reaches the end of the input; the run is over
Finish ==
    /\ pc = "write"
    /\ count > Len(file)
    /\ pc' = "done"
    /\ UNCHANGED <<file, args_s, skip, count, column_names, header, csv, exc>>

Next == ScanLine \/ OpenCsv \/ WriteLine \/ Finish

Spec == Init /\ [][Next]_vars

(***************************************************************************)
(* Vocabulary of the properties.                                           *)
(***************************************************************************)
\* the record of line i of the input file
Rec(i) == LineContents(file[i]).v

Parses(i) == LineContents(file[i]).ok

\* the leaf paths of line i
ColumnsOf(i) == KeySet(get_column_names(Rec(i), ""))

\* the header pass has taken line i through get_line_contents without an error
Scanned(i) == i \in 1..Len(file) /\ (i < count \/ csv.opened)

\* the write pass has handed line i to get_row
Handled(i) ==
    /\ i \in 1..Len(file)
    /\ csv.opened
    /\ Parses(i)
    /\ i < count \/ (pc = "failed" /\ i = count) \/ pc = "done"

\* the line at which the run failed
FailedLine == IF pc = "failed" THEN {file[count]} ELSE {}

RECURSIVE Resolves(_, _)
\* the dotted path names a position of the record: every segment but the last
\* is a key of a nested mapping, the last is a key of the mapping reached
Resolves(d, key) ==
    /\ d.t = "dict"
    /\ IF "." \notin CharsOf(key) THEN HasKey(d.m, key)
       ELSE /\ HasKey(d.m, SubSeq(key, 1, FirstDot(key) - 1))
            /\ Resolves(Lookup(d.m, SubSeq(key, 1, FirstDot(key) - 1)),
                        SubSeq(key, FirstDot(key) + 1, Len(key)))

RECURSIVE ValueAt(_, _)
\* the value at a path that resolves
ValueAt(d, key) ==
    IF "." \notin CharsOf(key) THEN Lookup(d.m, key)
    ELSE ValueAt(Lookup(d.m, SubSeq(key, 1, FirstDot(key) - 1)),
                 SubSeq(key, FirstDot(key) + 1, Len(key)))

DataRows == IF csv.opened THEN Len(csv.rows) - 1 ELSE 0

(***************************************************************************)
(* C1.  Flattening/extraction inverse: for every record the write pass has *)
(* handled and every path p of get_column_names(r), get_nested_value(r, p) *)
(* returns the leaf value of r stored under p, and not None.               *)
(***************************************************************************)
C1_FlattenExtractInverse ==
    \A i \in 1..Len(file) : Handled(i) =>
        LET cols == get_column_names(Rec(i), "").m
        IN  \A j \in 1..Len(cols) :
                /\ get_nested_value(Rec(i), cols[j][1]) = Returns(cols[j][2])
                /\ get_nested_value(Rec(i), cols[j][1]).v /= None

(***************************************************************************)
(* C2.  Missing-path totality: get_nested_value never raises, and for a    *)
(* header path that does not resolve in a handled record it returns None.  *)
(***************************************************************************)
C2_MissingPathTotality ==
    /\ exc /= "TypeError"
    /\ \A i \in 1..Len(file) : Handled(i) =>
          \A j \in 1..Len(header) :
              /\ get_nested_value(Rec(i), header[j]).exc = ""
              /\ ~Resolves(Rec(i), header[j]) =>
                    get_nested_value(Rec(i), header[j]).v = None

(***************************************************************************)
(* C3.  The scenario line with single-quoted keys, an unquoted True and a  *)
(* single-quoted string value is repaired and parsed into                  *)
(* {"id": 1, "open": "True", "tags": {"a-b": "c"}}, with the flattened     *)
(* keys id, open, tags.a-b and the row ["1", "True", "c"].                 *)
(***************************************************************************)
ScenarioLine == SampleLines[1]

ScenarioRecord ==
    PyDict(<< <<"id", PyInt(1)>>, <<"open", PyStr("True")>>,
              <<"tags", PyDict(<< <<"a-b", PyStr("c")>> >>)>> >>)

C3_ScenarioLineParses ==
    /\ ScenarioLine \notin FailedLine
    /\ \A i \in 1..Len(file) : Scanned(i) /\ file[i] = ScenarioLine =>
          /\ Parses(i)
          /\ Rec(i) = ScenarioRecord
          /\ ColumnsOf(i) = {"id", "open", "tags.a-b"}
          /\ get_row(Rec(i), <<"id", "open", "tags.a-b">>)
                = [exc |-> "", row |-> <<"1", "True", "c">>]

(***************************************************************************)
(* C4.  The skip option N: the first N lines are ignored by both passes,   *)
(* the header is the union of the leaf paths of the lines after them, and  *)
(* a finished run has written max(0, L - N) data rows for L lines.         *)
(***************************************************************************)
C4_SkipOption ==
    pc = "done" =>
        /\ DataRows = (IF Len(file) > args_s THEN Len(file) - args_s ELSE 0)
        /\ column_names = UNION {ColumnsOf(i) : i \in (args_s + 1)..Len(file)}

(***************************************************************************)
(* C5.  Row serialization: for every record handed to get_row, get_row     *)
(* returns one cell per header entry, in header order: the empty string    *)
(* for a path missing in the record, the string form of the leaf value     *)
(* otherwise (0 gives "0", False gives "False").                           *)
(***************************************************************************)
C5_RowSerialization ==
    \A i \in 1..Len(file) : Handled(i) =>
        LET row == get_row(Rec(i), header)
        IN  /\ row.exc = ""
            /\ Len(row.row) = Len(header)
            /\ \A j \in 1..Len(header) :
                  IF ~Resolves(Rec(i), header[j]) THEN row.row[j] = ""
                  ELSE ValueAt(Rec(i), header[j]) /= None =>
                          row.row[j] = Format(ValueAt(Rec(i), header[j]))

(***************************************************************************)
(* C6.  Brace-repair precision: a text or name value with literal braces   *)
(* as ordinary text is kept verbatim as a string by get_line_contents,     *)
(* also when another field of the line is a string-encoded object.         *)
(***************************************************************************)
\* the sample lines with such a value: the line, the field, the text
BraceTextLines == {
    <<SampleLines[2], "text", "Great {place}!">>,
    <<SampleLines[3], "name", "Flower {Studio}">>,
    <<SampleLines[4], "name", "Flower {Studio}">> }

C6_BraceTextPreserved ==
    \A b \in BraceTextLines :
        /\ b[1] \notin FailedLine
        /\ \A i \in 1..Len(file) : Scanned(i) /\ file[i] = b[1] =>
              /\ Parses(i)
              /\ HasKey(Rec(i).m, b[2])
              /\ Lookup(Rec(i).m, b[2]) = PyStr(b[3])

(***************************************************************************)
(* C7.  Embedded-object repair: the line whose attrs value is the string   *)
(* {'a': 1, 'b': 'x'} gives a record whose attrs is the nested mapping     *)
(* {a: 1, b: "x"}, flattened to attrs.a and attrs.b.                       *)
(***************************************************************************)
EmbeddedObjectLine == SampleLines[5]

EmbeddedObjectRecord ==
    PyDict(<< <<"attrs", PyDict(<< <<"a", PyInt(1)>>, <<"b", PyStr("x")>> >>)>> >>)

C7_EmbeddedObjectRepaired ==
    /\ EmbeddedObjectLine \notin FailedLine
    /\ \A i \in 1..Len(file) : Scanned(i) /\ file[i] = EmbeddedObjectLine =>
          /\ Parses(i)
          /\ Rec(i) = EmbeddedObjectRecord
          /\ ColumnsOf(i) = {"attrs.a", "attrs.b"}

(***************************************************************************)
(* C8.  Per-line failure isolation: a line that cannot be parsed does not  *)
(* end the run; the run goes on and the csv file gets one data row for     *)
(* every line that parses.                                                 *)
(***************************************************************************)
C8_FailureIsolation ==
    /\ exc /= "JSONDecodeError"
    /\ pc = "done" => DataRows = Cardinality({i \in 1..Len(file) : Parses(i)})

(***************************************************************************)
(* C9.  The header is the exact union: at every point of the header pass   *)
(* and after it, column_names is the union of the leaf paths of the        *)
(* non-skipped lines the pass has processed, no more and no less.          *)
(***************************************************************************)
\* the lines the header pass has processed
HeaderPassLines ==
    {i \in 1..Len(file) : i > ScanSkipArg /\ (i < count \/ csv.opened)}

C9_HeaderIsExactUnion ==
    column_names = UNION {ColumnsOf(i) : i \in HeaderPassLines}

\* the header pass has processed two records, each with a path the other lacks
C9_Witness ==
    /\ pc = "scan"
    /\ count = 3
    /\ ColumnsOf(1) \ ColumnsOf(2) /= {}
    /\ ColumnsOf(2) \ ColumnsOf(1) /= {}
    /\ column_names = ColumnsOf(1) \cup ColumnsOf(2)

(***************************************************************************)
(* C10.  The csv file is opened only after the header pass has gone over   *)
(* the whole input, and the write pass parses the lines the header pass    *)
(* has parsed: a line that fails to parse ends the run in the header pass, *)
(* with the csv file untouched.                                            *)
(***************************************************************************)
C10_ParseFailureLeavesNoCsv ==
    /\ csv.opened => pc /= "scan" /\ \A i \in 1..Len(file) : i > WriteSkipArg => Parses(i)
    /\ exc = "JSONDecodeError" => ~csv.opened /\ csv.rows = <<>>

\* a line fails to parse after the header pass has processed a line before it
C10_Witness ==
    /\ pc = "failed"
    /\ exc = "JSONDecodeError"
    /\ count > 1
    /\ ~Parses(count)
    /\ ~csv.opened

====
